---- MODULE Spec2Model ----
(***************************************************************************)
(* Model of the autonomous navigation core: the avoidance state machine    *)
(* (phase-1/jetson/app/controller.py), the scan scheduler                  *)
(* (jetson/app/sensing.py) and the reconnecting serial link                *)
(* (serial_link.py).                                                       *)
(*                                                                         *)
(* Time is the wall clock in milliseconds, as returned by _now_ms().  The  *)
(* clock reads of one tick (tick and _decide_action; tick, _send_servo and *)
(* _send_ping) fall into the same millisecond.  Distances are integers in  *)
(* centimetres; NaN is the not-a-number reading.                           *)
(***************************************************************************)
EXTENDS Integers, Sequences, FiniteSets, TLC

VARIABLES
    now,                  \* wall clock, ms
    pc,                   \* position in the main loop: "sensing" | "control"
    \* ---- SerialLink
    ser,                  \* TRUE iff self._ser is an open connection object
    mcu_cmd,              \* last movement command the microcontroller received
    call,                 \* what the last call of send_command / read_line did
    \* ---- SensingOrchestrator: direction slots
    dist_left, dist_center, dist_right,
    last_valid_center_ms,
    \* ---- ControlStateMachine
    speed, state, commit_until_ms, backoff_until_ms, stall_start_ms, last_cmd,
    \* ---- result of the last control tick (locals of tick())
    cmd, decision, sent, delivered,
    clear_ms,             \* time of the last control tick that found the
                          \* center distance at or above turn_exit, where
                          \* the run keeps track of it (0: none)
    twin,                 \* for each stop-exit value of StopExits, the fields
                          \* of a machine configured with it that has been
                          \* given the same readings at the same times
    \* ---- SensingOrchestrator: scan point state
    cycle_index, last_scan_ms, last_ping_ms, servo_move_ms, samples,
    awaiting_ping, attempts, current_servo_deg,
    last_valid_left_ms, last_valid_right_ms,
    \* ---- the serial line towards the scheduler
    rx,                   \* lines received and not yet returned by read_line
    pend,                 \* PINGs the microcontroller has still to answer
    \* ---- what the last scan tick did
    tx,                   \* line it handed to the link: "", "SERVO" or "PING"
    resolved,             \* "", "DONE" or "GIVE_UP"
    \* ---- history of the current scan point
    pings_pt,             \* PINGs issued since the cycle index last changed
    replies_pt,           \* DIST replies consumed since then
    lost,                 \* a PING or its reply has been lost
    unread,               \* lines queued before the last scan tick that it
                          \* left unread
    buf,                  \* the sample buffer as _consume_lines left it in
                          \* the last scan tick
    open_sv,              \* PINGs sent since the last SERVO command minus
                          \* DIST replies consumed since then
    \* ---- position in the end-to-end scenario
    phase,                \* number of scenario ticks prepared so far
    \* ---- SensingOrchestrator: sweep configuration and the cycle built from it
    sweep,
    \* ---- run(): where the process is and what it has sent itself
    proc

ctlVars == <<speed, state, commit_until_ms, backoff_until_ms, stall_start_ms,
             last_cmd, cmd, decision, sent, delivered, clear_ms, twin>>
slotVars == <<dist_left, dist_center, dist_right, last_valid_center_ms>>
linkVars == <<ser, mcu_cmd, call>>
scanVars == <<cycle_index, last_scan_ms, last_ping_ms, servo_move_ms, samples,
              awaiting_ping, attempts, current_servo_deg,
              last_valid_left_ms, last_valid_right_ms>>
lineVars == <<rx, pend>>
histVars == <<tx, resolved, pings_pt, replies_pt, lost, unread, buf,
              open_sv>>
vars == <<now, pc, linkVars, slotVars, ctlVars, scanVars, lineVars, histVars,
          phase, sweep, proc>>

---------------------------------------------------------------------------
(* Configuration: the defaults the code falls back to. *)

slow_enter == 60
slow_exit == 75
turn_enter == 35
turn_exit == 45
stop_enter == 20
stop_exit == 30

min_turn_ms == 550
backoff_ms == 500
rescan_ms == 200
stall_timer_ms == 2500

NaN == -1
Sentinel == 999

center_deg == 90
left_deg == 135
right_deg == 45
step_deg == 15
samples_per_point == 3
servo_settle_ms == 100
meas_cooldown_ms == 40

---------------------------------------------------------------------------
(* Bounds of the model. *)

\* The clock is followed for MaxTime steps of TimeUnit ms after start-up.
MaxTime == 10
\* The shorter horizon followed when the link may fail.
MaxTimeLossy == 5
TimeUnit == 3 * 100

\* Clock value at the first loop iteration: any value larger than every
\* interval of the configuration (the real clock is the epoch time).
StartMs == stall_timer_ms + rescan_ms

\* Time one loop iteration may take (sleep, serial reads, reconnects), in ms.
Dts == {TimeUnit, 2 * TimeUnit}

\* Readings a resolved scan point may write into a slot.
CenterVals == {15, 30, 40, 80}
SideVals == {40, 80}

\* The scan scheduler is followed for MaxScanTime steps of ScanUnit ms.
MaxScanTime == 28
ScanUnit == 2 * 10

\* Time between the clock reads of two consecutive scan ticks: a tick that
\* returns at once, and a tick that waits for the read timeout.
ScanDts == {ScanUnit, 7 * ScanUnit}

\* Lines the microcontroller may answer a PING with, and other lines.
ReplyLines == {"DIST,30", "DIST,40", "DIST,NA", "DIST,x"}
NoiseLines == {"OK", ""}

\* Lines the input buffer of the serial port holds between two ticks, and
\* the number of ScanUnit steps the scheduler is followed for with them.
MaxQueue == 2
MaxDrainTime == 12

Healthy == {TRUE}
Faulty == BOOLEAN

---------------------------------------------------------------------------
(* SerialLink *)

\* _connect: the set of possible values of "self._ser is open" after the call;
\* io is the set of outcomes the port may produce (TRUE: the operation works).
Connect(io) == io

\* What one call of send_command or read_line did: connects counts the
\* calls of _connect, failed says that a write or a read raised, fresh that
\* the connection the link holds was opened by this call, raised that an
\* exception left the call, ret what read_line returned: "none" for None,
\* "data" for what the port gave (a decoded line, or None at the timeout).
CallRec(op, n, failed, fresh, ret) ==
    [op |-> op, connects |-> n, failed |-> failed, fresh |-> fresh,
     raised |-> FALSE, ret |-> ret]

NoCall == CallRec("", 0, FALSE, FALSE, "")

\* Mutant of send_command: a failed write is not followed by close and
\* reconnect; the link keeps the connection the write failed on.
SendCommandKeepsFailed(s, io) ==
    LET s1 == IF s THEN {TRUE} ELSE Connect(io)
        n1 == IF s THEN 0 ELSE 1
    IN  UNION { IF ~c1
                THEN {[ser |-> FALSE, delivered |-> FALSE,
                       call |-> CallRec("send", n1, FALSE, FALSE, "")]}
                ELSE {[ser |-> TRUE, delivered |-> w1,
                       call |-> CallRec("send", n1, ~w1, ~s, "")] : w1 \in io}
                : c1 \in s1 }

\* send_command: the possible results [ser, delivered, call] of one call.
\* delivered iff one of the two writes went through.
SendCommand(s, io) ==
    LET s1 == IF s THEN {TRUE} ELSE Connect(io)
        n1 == IF s THEN 0 ELSE 1
    IN  UNION { IF ~c1
                THEN {[ser |-> FALSE, delivered |-> FALSE,
                       call |-> CallRec("send", n1, FALSE, FALSE, "")]}
                ELSE UNION { IF w1
                             THEN {[ser |-> TRUE, delivered |-> TRUE,
                                    call |-> CallRec("send", n1, FALSE, ~s, "")]}
                             ELSE UNION { IF ~c2
                                          THEN {[ser |-> FALSE, delivered |-> FALSE,
                                                 call |-> CallRec("send", n1 + 1, TRUE, FALSE, "")]}
                                          ELSE {[ser |-> TRUE, delivered |-> w2,
                                                 call |-> CallRec("send", n1 + 1, TRUE, TRUE, "")]
                                                : w2 \in io}
                                          : c2 \in Connect(io) }
                             : w1 \in io }
                : c1 \in s1 }

\* read_line: the possible results [ser, call] of one call.
ReadLine(s, io) ==
    LET s1 == IF s THEN {TRUE} ELSE Connect(io)
        n1 == IF s THEN 0 ELSE 1
    IN  UNION { IF ~c1
                THEN {[ser |-> FALSE,
                       call |-> CallRec("read", n1, FALSE, FALSE, "none")]}
                ELSE UNION { IF rd
                             THEN {[ser |-> TRUE,
                                    call |-> CallRec("read", n1, FALSE, ~s, "data")]}
                             ELSE {[ser |-> c2,
                                    call |-> CallRec("read", n1 + 1, TRUE, c2, "none")]
                                   : c2 \in Connect(io)}
                             : rd \in io }
                : c1 \in s1 }

\* read_line: the possible values of "self._ser is open" after one call.
ReadLineSer(s, io) == {r.ser : r \in ReadLine(s, io)}

---------------------------------------------------------------------------
(* SensingOrchestrator *)

Max(a, b) == IF a >= b THEN a ELSE b

\* __init__, line 32
max_attempts_per_point == Max(2, samples_per_point * 2)

\* _build_angles_cycle: the loop from round k on, angles built so far.
RECURSIVE BuildFrom(_, _, _, _, _, _)
BuildFrom(c, l, r, st, k, angles) ==
    LET right == c - k * st
        left == c + k * st
        a1 == IF right >= r THEN Append(angles, right) ELSE angles
        a2 == IF left <= l THEN Append(a1, left) ELSE a1
    IN  IF a2 = angles THEN angles ELSE BuildFrom(c, l, r, st, k + 1, a2)

\* _build_angles_cycle
BuildAnglesCycle(c, l, r, st) == BuildFrom(c, l, r, st, 1, <<c>>)

angles_cycle == BuildAnglesCycle(center_deg, left_deg, right_deg, step_deg)

\* _consume_lines, line 89: line.startswith("DIST,")
StartsWithDist(line) ==
    line \in {"DIST,30", "DIST,40", "DIST,NA", "DIST,x", "DIST,nan"}

\* _consume_lines, line 90: line.split(",", 1)[1]
Payload(line) ==
    CASE line = "DIST,30" -> "30"
      [] line = "DIST,40" -> "40"
      [] line = "DIST,NA" -> "NA"
      [] line = "DIST,x" -> "x"
      [] line = "DIST,nan" -> "nan"

\* _consume_lines, lines 92-96: float(parts[1]) succeeds.  Python's float
\* accepts decimal numerals and the words nan and inf; it raises ValueError
\* for any other text.
IsFloat(p) == p \in {"30", "40", "nan"}

\* _consume_lines, line 93: float(parts[1])
ParseFloat(p) == CASE p = "30" -> 30 [] p = "40" -> 40 [] p = "nan" -> NaN

\* _consume_lines: lines are the lines read_line returns one after the other
\* before it times out.  The result is the sample buffer, the awaiting flag,
\* the lines left unread and the number of DIST lines consumed.
RECURSIVE ConsumeLines(_, _, _, _)
ConsumeLines(lines, smp, aw, n) ==
    IF lines = <<>>
    THEN [samples |-> smp, awaiting |-> aw, rest |-> <<>>, replies |-> n]
    ELSE LET line == Head(lines)
         IN  IF line = ""
             THEN [samples |-> smp, awaiting |-> aw, rest |-> Tail(lines),
                   replies |-> n]
             ELSE IF StartsWithDist(line)
             THEN ConsumeLines(Tail(lines),
                               IF Payload(line) # "NA" /\ IsFloat(Payload(line))
                               THEN Append(smp, ParseFloat(Payload(line)))
                               ELSE smp,
                               FALSE, n + 1)
             ELSE ConsumeLines(Tail(lines), smp, aw, n)

\* sorted(vs): insertion of x into a sorted list, and the sorted list.
RECURSIVE Insert(_, _)
Insert(x, srt) ==
    IF srt = <<>> THEN <<x>>
    ELSE IF x <= Head(srt) THEN <<x>> \o srt
    ELSE <<Head(srt)>> \o Insert(x, Tail(srt))

RECURSIVE Sorted(_)
Sorted(vs) == IF vs = <<>> THEN <<>> ELSE Insert(Head(vs), Sorted(Tail(vs)))

\* Mutant of the median: for an even length the lower middle element.
MedianTwiceLower(vs) ==
    LET data == Sorted(vs)
        n == Len(data)
    IN  2 * data[(n + 1) \div 2]

\* statistics.median of a non-empty list, times two so that the mean of the
\* two middle elements stays an integer: data[n // 2] for odd n,
\* (data[n // 2 - 1] + data[n // 2]) / 2 for even n (indices from 0).
MedianTwice(vs) ==
    LET data == Sorted(vs)
        n == Len(data)
    IN  IF n % 2 = 1 THEN 2 * data[n \div 2 + 1]
        ELSE data[n \div 2] + data[n \div 2 + 1]

\* Mutant of utils.median: the oldest sample.
MedianOldest(smp) ==
    IF smp = <<>> THEN NaN ELSE smp[1]

\* utils.median; the slots of the model hold whole centimetres.
Median(smp) ==
    IF smp = <<>> THEN NaN ELSE MedianTwice(smp) \div 2

\* The scheduler's fields as a record, with what the tick has done so far.
ScanState ==
    [cycle_index |-> cycle_index, last_scan_ms |-> last_scan_ms,
     last_ping_ms |-> last_ping_ms, servo_move_ms |-> servo_move_ms,
     samples |-> samples, awaiting_ping |-> awaiting_ping,
     attempts |-> attempts, current_servo_deg |-> current_servo_deg,
     dist_left |-> dist_left, dist_center |-> dist_center,
     dist_right |-> dist_right,
     last_valid_center_ms |-> last_valid_center_ms,
     last_valid_left_ms |-> last_valid_left_ms,
     last_valid_right_ms |-> last_valid_right_ms,
     tx |-> "", resolved |-> ""]

\* tick, line 104
RescanDue(s, t) ==
    t - s.last_scan_ms >= rescan_ms /\ ~s.awaiting_ping /\ s.samples = <<>>

\* _send_servo; t2 is the clock after the send.
SendServo(s, deg, t2) ==
    [s EXCEPT !.servo_move_ms = t2, !.awaiting_ping = FALSE, !.samples = <<>>,
              !.current_servo_deg = deg, !.attempts = 0, !.tx = "SERVO"]

\* tick, lines 105-108
CommandPoint(s, t, t2) ==
    [SendServo(s, angles_cycle[s.cycle_index + 1], t2) EXCEPT !.last_scan_ms = t]

\* Mutant of _send_ping: the request is not remembered as outstanding.
SendPingNoWait(s, t2) ==
    [s EXCEPT !.last_ping_ms = t2, !.attempts = s.attempts + 1, !.tx = "PING"]

\* _send_ping; t2 is the clock after the send.
SendPing(s, t2) ==
    [s EXCEPT !.awaiting_ping = TRUE, !.last_ping_ms = t2,
              !.attempts = s.attempts + 1, !.tx = "PING"]

\* tick, lines 123-127 and 148-152: advance the cycle, reset the point.
Advance(s) ==
    [s EXCEPT !.cycle_index = (s.cycle_index + 1) % Len(angles_cycle),
              !.servo_move_ms = 0, !.awaiting_ping = FALSE,
              !.samples = <<>>, !.attempts = 0]

\* tick, lines 115-127
GiveUp(s) ==
    LET angle == angles_cycle[s.cycle_index + 1]
        w == IF angle = center_deg THEN [s EXCEPT !.dist_center = NaN]
             ELSE IF angle = left_deg THEN [s EXCEPT !.dist_left = NaN]
             ELSE IF angle = right_deg THEN [s EXCEPT !.dist_right = NaN]
             ELSE s
    IN  [Advance(w) EXCEPT !.resolved = "GIVE_UP"]

\* Mutant of the measuring step: the settle delay is not waited for.
MeasureUnsettled(s, t, t2) ==
    IF s.servo_move_ms > 0
    THEN IF Len(s.samples) < samples_per_point /\ ~s.awaiting_ping
         THEN IF s.attempts >= max_attempts_per_point
              THEN GiveUp(s)
              ELSE IF Len(s.samples) = 0 \/ t - s.last_ping_ms >= meas_cooldown_ms
                   THEN SendPing(s, t2)
                   ELSE s
         ELSE s
    ELSE s

\* tick, lines 111-129
Measure(s, t, t2) ==
    IF s.servo_move_ms > 0 /\ t - s.servo_move_ms >= servo_settle_ms
    THEN IF Len(s.samples) < samples_per_point /\ ~s.awaiting_ping
         THEN IF s.attempts >= max_attempts_per_point
              THEN GiveUp(s)
              ELSE IF Len(s.samples) = 0 \/ t - s.last_ping_ms >= meas_cooldown_ms
                   THEN SendPing(s, t2)
                   ELSE s
         ELSE s
    ELSE s

\* Mutant of the resolution: the result of an interleaved angle is kept in
\* the center slot.
DoneKeepsInterleaved(s, t) ==
    IF Len(s.samples) >= samples_per_point
    THEN LET m == Median(s.samples)
             angle == angles_cycle[s.cycle_index + 1]
             w == IF angle = left_deg
                  THEN [s EXCEPT !.dist_left = m, !.last_valid_left_ms = t]
                  ELSE IF angle = right_deg
                  THEN [s EXCEPT !.dist_right = m, !.last_valid_right_ms = t]
                  ELSE [s EXCEPT !.dist_center = m, !.last_valid_center_ms = t]
         IN  [Advance(w) EXCEPT !.resolved = "DONE"]
    ELSE s

\* tick, lines 135-152
Done(s, t) ==
    IF Len(s.samples) >= samples_per_point
    THEN LET m == Median(s.samples)
             angle == angles_cycle[s.cycle_index + 1]
             w == IF angle = center_deg
                  THEN [s EXCEPT !.dist_center = m, !.last_valid_center_ms = t]
                  ELSE IF angle = left_deg
                  THEN [s EXCEPT !.dist_left = m, !.last_valid_left_ms = t]
                  ELSE IF angle = right_deg
                  THEN [s EXCEPT !.dist_right = m, !.last_valid_right_ms = t]
                  ELSE s
         IN  [Advance(w) EXCEPT !.resolved = "DONE"]
    ELSE s

\* The scheduler's fields take the values of record s.
SetScan(s) ==
    /\ cycle_index' = s.cycle_index
    /\ last_scan_ms' = s.last_scan_ms
    /\ last_ping_ms' = s.last_ping_ms
    /\ servo_move_ms' = s.servo_move_ms
    /\ samples' = s.samples
    /\ awaiting_ping' = s.awaiting_ping
    /\ attempts' = s.attempts
    /\ current_servo_deg' = s.current_servo_deg
    /\ dist_left' = s.dist_left
    /\ dist_center' = s.dist_center
    /\ dist_right' = s.dist_right
    /\ last_valid_center_ms' = s.last_valid_center_ms
    /\ last_valid_left_ms' = s.last_valid_left_ms
    /\ last_valid_right_ms' = s.last_valid_right_ms
    /\ tx' = s.tx
    /\ resolved' = s.resolved

\* What may arrive while a tick drains the link: at most one noise line,
\* then the answer to an open PING (open: number of PINGs to be answered).
Arrivals(open) ==
    {n \o a : n \in {<<>>} \cup {<<x>> : x \in NoiseLines},
              a \in {<<>>} \cup (IF open > 0 THEN {<<x>> : x \in ReplyLines}
                                 ELSE {})}

\* tick, lines 110-152, for the lines read_line returns during the drain.
MeasureAndDrain(s, t, lines) ==
    LET c == ConsumeLines(lines, s.samples, s.awaiting_ping, 0)
    IN  Done([s EXCEPT !.samples = c.samples, !.awaiting_ping = c.awaiting], t)

\* A healthy sensor: every PING is answered with a distance while the tick
\* that sent it drains the link; nothing else arrives.
PromptAnswer(open) == IF open > 0 THEN {<<"DIST,30">>} ELSE {<<>>}

\* What may arrive while a tick drains the link, open requests pending.
Answers(prompt, open) == IF prompt THEN PromptAnswer(open) ELSE Arrivals(open)

\* SensingOrchestrator.tick.  The tick reads the clock (t), commands a point
\* and returns, or measures, drains the link and resolves the point.  dts are
\* the times that may have passed since the clock read of the tick before,
\* prompt tells whether the sensor is the healthy one of PromptAnswer.
ScanStepIn(io, horizon, dts, prompt) ==
    /\ \E dt \in dts :
         /\ now + dt <= StartMs + horizon * ScanUnit
         /\ now' = now + dt
    /\ IF RescanDue(ScanState, now')
       THEN /\ \E r \in SendCommand(ser, io) : ser' = r.ser /\ call' = r.call
            /\ SetScan(CommandPoint(ScanState, now', now'))
            /\ unread' = Len(rx)
            /\ buf' = <<>>
            /\ open_sv' = 0
            /\ UNCHANGED <<rx, pend, pings_pt, replies_pt, lost>>
       ELSE \E s1 \in {Measure(ScanState, now', now')} :
            \E r \in (IF s1.tx = "PING" THEN SendCommand(ser, io)
                      ELSE {[ser |-> ser, delivered |-> FALSE]}) :
            \E arr \in Answers(prompt, IF r.delivered THEN pend + 1 ELSE pend) :
            \E c \in {ConsumeLines(rx \o arr, s1.samples, s1.awaiting_ping, 0)} :
            \E s3 \in {MeasureAndDrain(s1, now', rx \o arr)} :
              /\ SetScan(s3)
              /\ \E rd \in ReadLine(r.ser, io) :
                   ser' = rd.ser /\ call' = rd.call
              /\ rx' = c.rest
              /\ unread' = Max(0, Len(c.rest) - Len(arr))
              /\ buf' = c.samples
              /\ open_sv' = open_sv + (IF s1.tx = "PING" THEN 1 ELSE 0)
                                     - c.replies
              /\ pend' = (IF r.delivered THEN pend + 1 ELSE pend)
                           - Cardinality({i \in 1..Len(arr) : StartsWithDist(arr[i])})
              /\ lost' = (lost \/ (s1.tx = "PING" /\ ~r.delivered))
              /\ pings_pt' = IF s3.cycle_index # cycle_index THEN 0
                             ELSE IF s1.tx = "PING" THEN pings_pt + 1
                             ELSE pings_pt
              /\ replies_pt' = IF s3.cycle_index # cycle_index THEN 0
                               ELSE replies_pt + c.replies
    /\ UNCHANGED <<mcu_cmd, ctlVars, phase, sweep>>

\* SensingOrchestrator.tick on a line that may delay or garble an answer.
ScanStep(io, horizon, dts) == ScanStepIn(io, horizon, dts, FALSE)

\* SensingOrchestrator.tick at the pace of ScanDts.
ScanTickBody(io, horizon) == ScanStep(io, horizon, ScanDts)

\* SensingOrchestrator.tick on its own.
ScanTick(io, horizon) ==
    /\ ScanTickBody(io, horizon)
    /\ UNCHANGED <<pc, proc>>

\* The serial line or the microcontroller loses a PING or its answer.
LineDrop ==
    /\ pend > 0
    /\ pend' = pend - 1
    /\ lost' = TRUE
    /\ UNCHANGED <<now, pc, linkVars, slotVars, ctlVars, scanVars, rx,
                   tx, resolved, pings_pt, replies_pt, unread, buf, open_sv, phase,
                   sweep,
                   proc>>

\* Between two ticks a line of the microcontroller reaches the input buffer
\* of the serial port: the answer to an open PING, or another line.
LineArrive ==
    /\ Len(rx) < MaxQueue
    /\ \/ /\ pend > 0
          /\ \E x \in ReplyLines : rx' = Append(rx, x)
          /\ pend' = pend - 1
       \/ /\ \E x \in NoiseLines : rx' = Append(rx, x)
          /\ pend' = pend
    /\ UNCHANGED <<now, pc, linkVars, slotVars, ctlVars, scanVars, histVars,
                   phase, sweep,
                   proc>>

\* SensingOrchestrator.__init__ and the idle serial line.
InitScanVars ==
    /\ cycle_index = 0
    /\ last_scan_ms = 0 /\ last_ping_ms = 0 /\ servo_move_ms = 0
    /\ samples = <<>>
    /\ awaiting_ping = FALSE
    /\ attempts = 0
    /\ current_servo_deg = center_deg
    /\ last_valid_left_ms = 0 /\ last_valid_right_ms = 0
    /\ rx = <<>> /\ pend = 0
    /\ tx = "" /\ resolved = ""
    /\ pings_pt = 0 /\ replies_pt = 0 /\ lost = FALSE /\ unread = 0
    /\ buf = <<>>
    /\ open_sv = 0

---------------------------------------------------------------------------
(* ControlStateMachine *)

\* Mutant of the substitution: not-a-number is handed on as it is.
SubstNothing(d) == d

\* tick, lines 96-101: NaN is replaced by a large distance.
Subst(d) == IF d = NaN THEN Sentinel ELSE d

\* Mutant of _update_speed: one threshold, no hysteresis band.
UpdateSpeedOneThreshold(sp, dc) ==
    IF dc < slow_exit THEN "SLOW" ELSE "FAST"

\* _update_speed
UpdateSpeed(sp, dc) ==
    IF sp = "FAST" /\ dc < slow_enter THEN "SLOW"
    ELSE IF sp = "SLOW" /\ dc > slow_exit THEN "FAST"
    ELSE sp

\* Mutant of Stale: the never-valid timestamp 0 is not treated as stale.
StaleIgnoresNeverValid(lvc, t) == lvc # 0 /\ t - lvc > rescan_ms * 3

\* tick, line 110: the condition of the sensor-recovery rule.
Stale(lvc, t) == lvc = 0 \/ t - lvc > rescan_ms * 3

\* Mutant of the sensor-recovery rule: a reading older than one rescan
\* interval already counts as lost.
SensorRecoveryEager(s, lvc, t) ==
    IF lvc = 0 \/ t - lvc > rescan_ms
    THEN [s EXCEPT !.state = "SENSOR_RECOVERY", !.cmd = "F,SLOW",
                   !.decision = "SENSOR_RECOVERY"]
    ELSE s

\* tick, lines 110-113.  s is the record of the fields a tick may change
\* together with the tick's locals cmd and decision.
SensorRecovery(s, lvc, t) ==
    IF Stale(lvc, t)
    THEN [s EXCEPT !.state = "SENSOR_RECOVERY", !.cmd = "F,SLOW",
                   !.decision = "SENSOR_RECOVERY"]
    ELSE s

\* Mutant of BackoffInProgress: every tick in BACKOFF re-arms the timer.
BackoffRearmed(s, dl, dr, t) ==
    IF s.state = "BACKOFF" /\ s.cmd = ""
    THEN [s EXCEPT !.backoff = t + backoff_ms, !.cmd = "B,SLOW",
                   !.decision = "BACKOFF"]
    ELSE s

\* tick, lines 115-130.
BackoffInProgress(s, dl, dr, t) ==
    IF s.state = "BACKOFF" /\ s.cmd = ""
    THEN IF t < s.backoff
         THEN [s EXCEPT !.cmd = "B,SLOW", !.decision = "BACKOFF"]
         ELSE IF dl > dr
              THEN [s EXCEPT !.state = "AVOID_SPIN", !.commit = t + min_turn_ms,
                             !.cmd = "SPINL", !.decision = "AVOID_SPIN"]
              ELSE [s EXCEPT !.state = "AVOID_SPIN", !.commit = t + min_turn_ms,
                             !.cmd = "SPINR", !.decision = "AVOID_SPIN"]
    ELSE s

\* Mutant of DecideAction: the commit window is not honoured.
DecideActionNoCommit(s, sp, lc, dl, dc, dr, t) ==
    IF dc < stop_enter /\ s.state # "BACKOFF"
    THEN [s EXCEPT !.state = "BACKOFF", !.backoff = t + backoff_ms,
                   !.cmd = "B,SLOW", !.decision = "BACKOFF"]
    ELSE IF dc < turn_enter
    THEN IF dl > dr
         THEN [s EXCEPT !.state = "AVOID_ARC", !.commit = t + min_turn_ms,
                        !.cmd = "L,SLOW", !.decision = "AVOID_ARC"]
         ELSE [s EXCEPT !.state = "AVOID_ARC", !.commit = t + min_turn_ms,
                        !.cmd = "R,SLOW", !.decision = "AVOID_ARC"]
    ELSE IF dc > turn_exit
    THEN [s EXCEPT !.state = "CRUISE", !.cmd = "F," \o sp, !.decision = "CRUISE"]
    ELSE [s EXCEPT !.cmd = "F," \o sp, !.decision = "CRUISE"]

\* _decide_action; t is its own reading of the clock, sp the current speed,
\* lc the last command sent.
DecideAction(s, sp, lc, dl, dc, dr, t) ==
    IF dc < stop_enter /\ s.state # "BACKOFF"
    THEN [s EXCEPT !.state = "BACKOFF", !.backoff = t + backoff_ms,
                   !.cmd = "B,SLOW", !.decision = "BACKOFF"]
    ELSE IF s.state \in {"AVOID_ARC", "AVOID_SPIN"} /\ t < s.commit
    THEN [s EXCEPT !.cmd = lc, !.decision = s.state]
    ELSE IF dc < turn_enter
    THEN IF dl > dr
         THEN [s EXCEPT !.state = "AVOID_ARC", !.commit = t + min_turn_ms,
                        !.cmd = "L,SLOW", !.decision = "AVOID_ARC"]
         ELSE [s EXCEPT !.state = "AVOID_ARC", !.commit = t + min_turn_ms,
                        !.cmd = "R,SLOW", !.decision = "AVOID_ARC"]
    ELSE IF dc > turn_exit
    THEN [s EXCEPT !.state = "CRUISE", !.cmd = "F," \o sp, !.decision = "CRUISE"]
    ELSE [s EXCEPT !.cmd = "F," \o sp, !.decision = "CRUISE"]

\* Mutant of the general avoidance step: an unexpired commit window is
\* honoured before _decide_action looks at the center distance.
GeneralAvoidanceCommitFirst(s, sp, lc, dl, dc, dr, t) ==
    IF s.cmd = ""
    THEN IF s.state \in {"AVOID_ARC", "AVOID_SPIN"} /\ t < s.commit
         THEN [s EXCEPT !.cmd = lc, !.decision = s.state]
         ELSE DecideAction(s, sp, lc, dl, dc, dr, t)
    ELSE s

\* tick, lines 132-133.
GeneralAvoidance(s, sp, lc, dl, dc, dr, t) ==
    IF s.cmd = "" THEN DecideAction(s, sp, lc, dl, dc, dr, t) ELSE s

\* Mutant of the stall detection: it runs in BACKOFF and inside a commit
\* window too.
StallDetectionUnsuppressed(s, dc, t) ==
    IF dc < turn_exit
    THEN IF s.stall = 0
         THEN [s EXCEPT !.stall = t]
         ELSE IF t - s.stall > stall_timer_ms
              THEN [s EXCEPT !.state = "BACKOFF", !.backoff = t + backoff_ms,
                             !.cmd = "B,SLOW", !.decision = "STALL_BACKOFF"]
              ELSE s
    ELSE [s EXCEPT !.stall = 0]

\* tick, lines 136-146.
StallDetection(s, dc, t) ==
    IF s.state # "BACKOFF"
    THEN IF dc < turn_exit
         THEN IF s.stall = 0
              THEN [s EXCEPT !.stall = t]
              ELSE IF t - s.stall > stall_timer_ms /\ t >= s.commit
                   THEN [s EXCEPT !.state = "BACKOFF", !.backoff = t + backoff_ms,
                                  !.cmd = "B,SLOW", !.decision = "STALL_BACKOFF"]
                   ELSE s
         ELSE [s EXCEPT !.stall = 0]
    ELSE s

\* Mutant of SendOnce: every non-empty command is handed to the link.
SendAlways(c, lc) == c # ""

\* _send_once: whether the command is handed to the link.
SendOnce(c, lc) == c # "" /\ c # lc

\* ControlStateMachine.tick, lines 94-146: the fields and locals after the
\* decision, before the command is sent.
Decide ==
    LET dl == Subst(dist_left)
        dc == Subst(dist_center)
        dr == Subst(dist_right)
        sp == UpdateSpeed(speed, dc)
        s0 == [state |-> state, commit |-> commit_until_ms,
               backoff |-> backoff_until_ms, stall |-> stall_start_ms,
               cmd |-> "", decision |-> ""]
        s1 == SensorRecovery(s0, last_valid_center_ms, now)
        s2 == BackoffInProgress(s1, dl, dr, now)
        s3 == GeneralAvoidance(s2, sp, last_cmd, dl, dc, dr, now)
    IN  StallDetection(s3, dc, now)

\* The stop-exit values a machine may be configured with
\* (thresholds_cm.stop_exit; 30 where the configuration names none).
StopExits == {stop_exit, 50}

\* __init__, lines 23-30: the thresholds of a machine configured with the
\* stop-exit value se.
Hysteresis(se) ==
    [slow_enter |-> slow_enter, slow_exit |-> slow_exit,
     turn_enter |-> turn_enter, turn_exit |-> turn_exit,
     stop_enter |-> stop_enter, stop_exit |-> se]

\* _update_speed of a machine with the thresholds h.
UpdateSpeedWith(h, sp, dc) ==
    IF sp = "FAST" /\ dc < h.slow_enter THEN "SLOW"
    ELSE IF sp = "SLOW" /\ dc > h.slow_exit THEN "FAST"
    ELSE sp

\* Mutant of DecideActionWith: a machine that is avoiding backs off below
\* stop-exit already.
DecideActionWithStopBand(h, s, sp, lc, dl, dc, dr, t) ==
    IF /\ s.state # "BACKOFF"
       /\ dc < (IF s.state \in {"AVOID_ARC", "AVOID_SPIN"}
                THEN h.stop_exit ELSE h.stop_enter)
    THEN [s EXCEPT !.state = "BACKOFF", !.backoff = t + backoff_ms,
                   !.cmd = "B,SLOW", !.decision = "BACKOFF"]
    ELSE IF s.state \in {"AVOID_ARC", "AVOID_SPIN"} /\ t < s.commit
    THEN [s EXCEPT !.cmd = lc, !.decision = s.state]
    ELSE IF dc < h.turn_enter
    THEN IF dl > dr
         THEN [s EXCEPT !.state = "AVOID_ARC", !.commit = t + min_turn_ms,
                        !.cmd = "L,SLOW", !.decision = "AVOID_ARC"]
         ELSE [s EXCEPT !.state = "AVOID_ARC", !.commit = t + min_turn_ms,
                        !.cmd = "R,SLOW", !.decision = "AVOID_ARC"]
    ELSE IF dc > h.turn_exit
    THEN [s EXCEPT !.state = "CRUISE", !.cmd = "F," \o sp, !.decision = "CRUISE"]
    ELSE [s EXCEPT !.cmd = "F," \o sp, !.decision = "CRUISE"]

\* _decide_action of a machine with the thresholds h.
DecideActionWith(h, s, sp, lc, dl, dc, dr, t) ==
    IF dc < h.stop_enter /\ s.state # "BACKOFF"
    THEN [s EXCEPT !.state = "BACKOFF", !.backoff = t + backoff_ms,
                   !.cmd = "B,SLOW", !.decision = "BACKOFF"]
    ELSE IF s.state \in {"AVOID_ARC", "AVOID_SPIN"} /\ t < s.commit
    THEN [s EXCEPT !.cmd = lc, !.decision = s.state]
    ELSE IF dc < h.turn_enter
    THEN IF dl > dr
         THEN [s EXCEPT !.state = "AVOID_ARC", !.commit = t + min_turn_ms,
                        !.cmd = "L,SLOW", !.decision = "AVOID_ARC"]
         ELSE [s EXCEPT !.state = "AVOID_ARC", !.commit = t + min_turn_ms,
                        !.cmd = "R,SLOW", !.decision = "AVOID_ARC"]
    ELSE IF dc > h.turn_exit
    THEN [s EXCEPT !.state = "CRUISE", !.cmd = "F," \o sp, !.decision = "CRUISE"]
    ELSE [s EXCEPT !.cmd = "F," \o sp, !.decision = "CRUISE"]

\* tick, lines 136-146, of a machine with the thresholds h.
StallDetectionWith(h, s, dc, t) ==
    IF s.state # "BACKOFF"
    THEN IF dc < h.turn_exit
         THEN IF s.stall = 0
              THEN [s EXCEPT !.stall = t]
              ELSE IF t - s.stall > stall_timer_ms /\ t >= s.commit
                   THEN [s EXCEPT !.state = "BACKOFF", !.backoff = t + backoff_ms,
                                  !.cmd = "B,SLOW", !.decision = "STALL_BACKOFF"]
                   ELSE s
         ELSE [s EXCEPT !.stall = 0]
    ELSE s

\* The fields of the machine and what its last tick decided and sent.
Machine ==
    [state |-> state, speed |-> speed, commit |-> commit_until_ms,
     backoff |-> backoff_until_ms, stall |-> stall_start_ms,
     last_cmd |-> last_cmd, cmd |-> cmd, decision |-> decision, sent |-> sent]

\* ControlStateMachine.tick, lines 94-148, of a machine with the thresholds
\* h and the fields m, on the readings l, c, r, the center timestamp lvc
\* and the clock t: its fields after the tick.
TickWith(h, m, l, c, r, lvc, t) ==
    LET dl == Subst(l)
        dc == Subst(c)
        dr == Subst(r)
        sp == UpdateSpeedWith(h, m.speed, dc)
        s0 == [state |-> m.state, commit |-> m.commit, backoff |-> m.backoff,
               stall |-> m.stall, cmd |-> "", decision |-> ""]
        s1 == SensorRecovery(s0, lvc, t)
        s2 == BackoffInProgress(s1, dl, dr, t)
        s3 == IF s2.cmd = ""
              THEN DecideActionWith(h, s2, sp, m.last_cmd, dl, dc, dr, t)
              ELSE s2
        s4 == StallDetectionWith(h, s3, dc, t)
        snd == SendOnce(s4.cmd, m.last_cmd)
    IN  [state |-> s4.state, speed |-> sp, commit |-> s4.commit,
         backoff |-> s4.backoff, stall |-> s4.stall,
         last_cmd |-> IF snd THEN s4.cmd ELSE m.last_cmd,
         cmd |-> s4.cmd, decision |-> s4.decision, sent |-> snd]

\* ControlStateMachine.tick; track tells whether the run keeps clear_ms.
ControlStep(io, track) ==
    /\ pc = "control"
    /\ twin' = [e \in StopExits |->
                  TickWith(Hysteresis(e), twin[e], dist_left, dist_center,
                           dist_right, last_valid_center_ms, now)]
    /\ clear_ms' = IF track /\ Subst(dist_center) >= turn_exit THEN now
                   ELSE clear_ms
    /\ speed' = UpdateSpeed(speed, Subst(dist_center))
    /\ state' = Decide.state
    /\ commit_until_ms' = Decide.commit
    /\ backoff_until_ms' = Decide.backoff
    /\ stall_start_ms' = Decide.stall
    /\ cmd' = Decide.cmd
    /\ decision' = Decide.decision
    /\ IF SendOnce(Decide.cmd, last_cmd)
       THEN /\ sent' = TRUE
            /\ last_cmd' = Decide.cmd
            /\ \E r \in SendCommand(ser, io) :
                 /\ ser' = r.ser
                 /\ call' = r.call
                 /\ delivered' = r.delivered
                 /\ mcu_cmd' = IF r.delivered THEN Decide.cmd ELSE mcu_cmd
       ELSE /\ sent' = FALSE
            /\ delivered' = FALSE
            /\ UNCHANGED <<last_cmd, ser, mcu_cmd, call>>
    /\ pc' = "sensing"
    /\ UNCHANGED <<now, slotVars, scanVars, lineVars, histVars, phase, sweep,
                   proc>>

\* ControlStateMachine.tick
ControlTick(io) == ControlStep(io, FALSE)

---------------------------------------------------------------------------
(* The part of SensingOrchestrator.tick the avoidance machine observes: one  *)
(* loop iteration passes (dt), at most one scan point resolves and writes   *)
(* its slot, and the link is read at least once (read_line reconnects).     *)

\* tick, lines 114-127 and 135-146: the slot writes of a point that resolves.
SlotWrite(ts) ==
    \/ UNCHANGED slotVars
    \/ /\ \E v \in CenterVals : dist_center' = v
       /\ last_valid_center_ms' = ts
       /\ UNCHANGED <<dist_left, dist_right>>
    \/ /\ dist_center' = NaN
       /\ UNCHANGED <<dist_left, dist_right, last_valid_center_ms>>
    \/ /\ \E v \in SideVals \cup {NaN} : dist_left' = v
       /\ UNCHANGED <<dist_center, dist_right, last_valid_center_ms>>
    \/ /\ \E v \in SideVals \cup {NaN} : dist_right' = v
       /\ UNCHANGED <<dist_left, dist_center, last_valid_center_ms>>

SensingUpdate(io, horizon) ==
    /\ pc = "sensing"
    /\ \E dt \in Dts :
         /\ now + dt <= StartMs + horizon * TimeUnit
         /\ now' = now + dt
    /\ SlotWrite(now)
    /\ \E r \in ReadLine(ser, io) : ser' = r.ser /\ call' = r.call
    /\ pc' = "control"
    /\ UNCHANGED <<mcu_cmd, ctlVars, scanVars, lineVars, histVars, phase, sweep,
                   proc>>

---------------------------------------------------------------------------

\* __init__, lines 13-22: the default sweep and its cycle.
DefaultSweep ==
    [center |-> center_deg, left |-> left_deg, right |-> right_deg,
     step |-> step_deg, angles |-> angles_cycle]

\* run() inside its main loop: at is "pairing", "loop" or "exit"; deadline
\* the end of the pairing wait; last_hb the watchdog's timestamp; line what
\* the last step of run() sent itself ("", "HB" or "STOP"); stops the number
\* of STOP sends; wd whether the watchdog has ticked in this iteration.
ProcLoop ==
    [at |-> "loop", deadline |-> StartMs, last_hb |-> 0, line |-> "",
     stops |-> 0, wd |-> FALSE]

\* The state after construction of the link, the scheduler and the machine,
\* but for the sweep and the position in run().
InitLoop ==
    /\ InitScanVars
    /\ now = StartMs
    /\ pc = "sensing"
    /\ ser = TRUE
    /\ mcu_cmd = ""
    /\ call = NoCall
    /\ dist_left = NaN /\ dist_center = NaN /\ dist_right = NaN
    /\ last_valid_center_ms = 0
    /\ speed = "FAST"
    /\ state = "CRUISE"
    /\ commit_until_ms = 0
    /\ backoff_until_ms = 0
    /\ stall_start_ms = 0
    /\ clear_ms = 0
    /\ last_cmd = ""
    /\ cmd = "" /\ decision = "" /\ sent = FALSE /\ delivered = FALSE
    /\ twin = [e \in StopExits |-> Machine]
    /\ phase = 0

\* The state after construction with the default sweep configuration.
InitCtl ==
    /\ InitLoop
    /\ sweep = DefaultSweep
    /\ proc = ProcLoop

NextCtl == SensingUpdate(Healthy, MaxTime) \/ ControlTick(Healthy)

SpecCtl == InitCtl /\ [][NextCtl]_vars

NextLossy == SensingUpdate(Faulty, MaxTimeLossy) \/ ControlTick(Faulty)

SpecLossy == InitCtl /\ [][NextLossy]_vars

\* The avoidance machine followed for MaxStallTime steps of TimeUnit ms, long
\* enough for the stall timer to run out, with the time of the last clear
\* center reading remembered.
MaxStallTime == 10

NextStall == SensingUpdate(Healthy, MaxStallTime) \/ ControlStep(Healthy, TRUE)

SpecStall == InitCtl /\ [][NextStall]_vars

\* The scan scheduler alone, on a link that stays connected, with a serial
\* line that may lose a PING or its answer.
NextScan == ScanTick(Healthy, MaxScanTime) \/ LineDrop

SpecScan == InitCtl /\ [][NextScan]_vars

\* The scan scheduler with lines that queue up between its ticks.
NextDrain == ScanTick(Healthy, MaxDrainTime) \/ LineArrive

SpecDrain == InitCtl /\ [][NextDrain]_vars

---------------------------------------------------------------------------
(* The end-to-end scenario: after any run of the loop that has not left the *)
(* machine in BACKOFF, three control ticks at t, t + 200 and t + 520 with a *)
(* valid center reading at each of them.                                    *)

\* The loop is followed for MaxWarmTime steps of TimeUnit ms before tick one.
MaxWarmTime == 3

\* Time of the second and the third tick after the one before.
ScenarioDts == <<Dts, {200}, {320}>>

\* Center readings the scheduler may have written before each tick, and the
\* side readings at the third tick.
ScenarioCenter == <<{15}, {15}, CenterVals>>
ScenarioLeft == {80}
ScenarioRight == {40}

\* What SensingOrchestrator.tick leaves in the slots before scenario tick
\* phase + 1: the center slot is rewritten (timestamp: the clock read by the
\* scan tick) or, after the first tick, left as it is while it stays valid.
ScenarioStep ==
    /\ pc = "sensing"
    /\ phase < 3
    /\ phase = 0 => state # "BACKOFF"
    /\ phase' = phase + 1
    /\ \E dt \in ScenarioDts[phase + 1] : now' = now + dt
    /\ \/ /\ \E v \in ScenarioCenter[phase + 1] : dist_center' = v
          /\ last_valid_center_ms' = now
       \/ /\ phase > 0
          /\ UNCHANGED <<dist_center, last_valid_center_ms>>
    /\ ~Stale(last_valid_center_ms', now')
    /\ IF phase = 2
       THEN /\ dist_left' \in ScenarioLeft
            /\ dist_right' \in ScenarioRight
       ELSE UNCHANGED <<dist_left, dist_right>>
    /\ \E r \in ReadLine(ser, Healthy) : ser' = r.ser /\ call' = r.call
    /\ pc' = "control"
    /\ UNCHANGED <<mcu_cmd, ctlVars, scanVars, lineVars, histVars, sweep, proc>>

NextE2E ==
    \/ phase = 0 /\ SensingUpdate(Healthy, MaxWarmTime)
    \/ ScenarioStep
    \/ ControlTick(Healthy)

SpecE2E == InitCtl /\ [][NextE2E]_vars

---------------------------------------------------------------------------
(* The loop with center readings on both sides of and inside the speed     *)
(* hysteresis band.                                                         *)

\* The loop is followed for MaxHystTime steps of TimeUnit ms.
MaxHystTime == 5

HystVals == {15, 30, 65, 70, 80}

\* The center slot as the scheduler leaves it between two control ticks.
HystSensing ==
    /\ pc = "sensing"
    /\ \E dt \in Dts :
         /\ now + dt <= StartMs + MaxHystTime * TimeUnit
         /\ now' = now + dt
    /\ \/ UNCHANGED <<dist_center, last_valid_center_ms>>
       \/ /\ \E v \in HystVals : dist_center' = v
          /\ last_valid_center_ms' = now
       \/ /\ dist_center' = NaN
          /\ UNCHANGED last_valid_center_ms
    /\ UNCHANGED <<dist_left, dist_right>>
    /\ \E r \in ReadLine(ser, Healthy) : ser' = r.ser /\ call' = r.call
    /\ pc' = "control"
    /\ UNCHANGED <<mcu_cmd, ctlVars, scanVars, lineVars, histVars, phase, sweep,
                   proc>>

NextHyst == HystSensing \/ ControlTick(Healthy)

SpecHyst == InitCtl /\ [][NextHyst]_vars

---------------------------------------------------------------------------
(* Construction of the angle cycle for a range of sweep configurations.    *)

\* center_deg = 90 + center_trim_deg, the bounds and the step of the sweep.
CfgCenters == {85, 90, 95, 105}
CfgLefts == {100, 120, 135}
CfgRights == {45, 60, 80}
CfgSteps == {10, 15, 30}

\* __init__, lines 13-19: the sweep is read from the configuration; the
\* cycle is not built yet.
InitCycle ==
    /\ InitLoop
    /\ sweep \in [center : CfgCenters, left : CfgLefts, right : CfgRights,
                  step : CfgSteps, angles : {<<>>}]
    /\ proc = ProcLoop

\* __init__, line 22
BuildCycle ==
    /\ sweep.angles = <<>>
    /\ sweep' = [sweep EXCEPT !.angles = BuildAnglesCycle(sweep.center,
                                  sweep.left, sweep.right, sweep.step)]
    /\ UNCHANGED <<now, pc, linkVars, slotVars, ctlVars, scanVars, lineVars,
                   histVars, phase,
                   proc>>

SpecCycle == InitCycle /\ [][BuildCycle]_vars

---------------------------------------------------------------------------
(* _build_angles_cycle round by round, for any integer step.               *)

\* Sweep configurations with a zero and a negative step and with a center
\* outside the bounds; the loop is followed for at most MaxRounds rounds.
LoopCenters == {40, 90, 140}
LoopLefts == {135}
LoopRights == {45}
LoopSteps == {0 - 15, 0, 15}
MaxRounds == 100

\* __init__, lines 13-19: the configuration is read, the loop not entered.
InitBuild ==
    /\ InitLoop
    /\ sweep \in [center : LoopCenters, left : LoopLefts, right : LoopRights,
                  step : LoopSteps, angles : {<<>>}, k : {0}, done : {FALSE}]
    /\ proc = ProcLoop

\* _build_angles_cycle, lines 55-66: one round of the while loop.
LoopRound(sw) ==
    LET right == sw.center - sw.k * sw.step
        left == sw.center + sw.k * sw.step
        a1 == IF right >= sw.right THEN Append(sw.angles, right) ELSE sw.angles
        a2 == IF left <= sw.left THEN Append(a1, left) ELSE a1
    IN  IF a2 = sw.angles THEN [sw EXCEPT !.done = TRUE]
        ELSE [sw EXCEPT !.angles = a2, !.k = sw.k + 1]

\* _build_angles_cycle: lines 52-53 on entry, then a round of the loop.
BuildRound ==
    /\ ~sweep.done
    /\ sweep.k < MaxRounds
    /\ sweep' = IF sweep.k = 0
                THEN [sweep EXCEPT !.angles = <<sweep.center>>, !.k = 1]
                ELSE LoopRound(sweep)
    /\ UNCHANGED <<now, pc, linkVars, slotVars, ctlVars, scanVars, lineVars,
                   histVars, phase, proc>>

SpecBuild == InitBuild /\ [][BuildRound]_vars

---------------------------------------------------------------------------
(* The median of sample buffers of every length up to MaxSamples.          *)

MaxSamples == 4
SampleVals == {30, 31, 32}

\* A sample buffer as _consume_lines may have filled it.
InitMedian ==
    /\ \E n \in 0..MaxSamples : samples \in [1..n -> SampleVals]
    /\ cycle_index = 0
    /\ last_scan_ms = 0 /\ last_ping_ms = 0 /\ servo_move_ms = 0
    /\ awaiting_ping = FALSE
    /\ attempts = 0
    /\ current_servo_deg = center_deg
    /\ last_valid_left_ms = 0 /\ last_valid_right_ms = 0
    /\ rx = <<>> /\ pend = 0
    /\ tx = "" /\ resolved = ""
    /\ pings_pt = 0 /\ replies_pt = 0 /\ lost = FALSE /\ unread = 0
    /\ buf = <<>>
    /\ open_sv = 0
    /\ now = StartMs
    /\ pc = "sensing"
    /\ ser = TRUE
    /\ mcu_cmd = ""
    /\ call = NoCall
    /\ dist_left = NaN /\ dist_center = NaN /\ dist_right = NaN
    /\ last_valid_center_ms = 0
    /\ speed = "FAST"
    /\ state = "CRUISE"
    /\ commit_until_ms = 0
    /\ backoff_until_ms = 0
    /\ stall_start_ms = 0
    /\ clear_ms = 0
    /\ last_cmd = ""
    /\ cmd = "" /\ decision = "" /\ sent = FALSE /\ delivered = FALSE
    /\ twin = [e \in StopExits |-> Machine]
    /\ phase = 0
    /\ sweep = DefaultSweep
    /\ proc = ProcLoop

\* tick, line 136: m = median(self._samples), written to the center slot.
ApplyMedian ==
    /\ resolved = ""
    /\ dist_center' = Median(samples)
    /\ resolved' = "DONE"
    /\ UNCHANGED <<now, pc, linkVars, dist_left, dist_right,
                   last_valid_center_ms, ctlVars, scanVars, lineVars,
                   tx, pings_pt, replies_pt, lost, unread, buf, open_sv, phase,
                   sweep,
                   proc>>

SpecMedian == InitMedian /\ [][ApplyMedian]_vars

---------------------------------------------------------------------------
(* The scheduler at any point of its sweep.                                *)

\* The scheduler is followed for MaxSweepTime steps of ScanUnit ms from the
\* start of a point; PriorVals are readings earlier rounds may have left in
\* the slots.
MaxSweepTime == 18
PriorVals == {NaN, 80}

\* tick, lines 123-127 and 148-152: the state a resolution leaves behind, at
\* any index of the cycle, some time after the last SERVO command.  The
\* slots hold what earlier rounds stored: nothing yet, or a reading.
InitSweep ==
    /\ cycle_index \in 0..(Len(angles_cycle) - 1)
    /\ \E v \in PriorVals :
         /\ dist_left = v /\ dist_center = v /\ dist_right = v
         /\ \E ts \in {IF v = NaN THEN 0 ELSE StartMs - rescan_ms} :
              /\ last_valid_center_ms = ts
              /\ last_valid_left_ms = ts
              /\ last_valid_right_ms = ts
    /\ last_scan_ms = 0 /\ last_ping_ms = 0 /\ servo_move_ms = 0
    /\ samples = <<>>
    /\ awaiting_ping = FALSE
    /\ attempts = 0
    /\ current_servo_deg = center_deg
    /\ rx = <<>> /\ pend = 0
    /\ tx = "" /\ resolved = ""
    /\ pings_pt = 0 /\ replies_pt = 0 /\ lost = FALSE /\ unread = 0
    /\ buf = <<>>
    /\ open_sv = 0
    /\ now = StartMs
    /\ pc = "sensing"
    /\ ser = TRUE
    /\ mcu_cmd = ""
    /\ call = NoCall
    /\ speed = "FAST"
    /\ state = "CRUISE"
    /\ commit_until_ms = 0
    /\ backoff_until_ms = 0
    /\ stall_start_ms = 0
    /\ clear_ms = 0
    /\ last_cmd = ""
    /\ cmd = "" /\ decision = "" /\ sent = FALSE /\ delivered = FALSE
    /\ twin = [e \in StopExits |-> Machine]
    /\ phase = 0
    /\ sweep = DefaultSweep
    /\ proc = ProcLoop

NextSweep == ScanTick(Healthy, MaxSweepTime) \/ LineDrop

SpecSweep == InitSweep /\ [][NextSweep]_vars

---------------------------------------------------------------------------
(* The main loop with a healthy sensor.                                    *)

\* The loop is followed for MaxHealthyTime steps of ScanUnit ms.
MaxHealthyTime == 45

\* run(), line 30: sensing.tick() with the healthy sensor.
HealthyScan ==
    /\ pc = "sensing"
    /\ ScanStepIn(Healthy, MaxHealthyTime, ScanDts, TRUE)
    /\ pc' = "control"
    /\ UNCHANGED proc

\* run(), lines 30-31: sensing.tick() and sm.tick() in turn.
NextHealthy == HealthyScan \/ ControlTick(Healthy)

SpecHealthy == InitCtl /\ [][NextHealthy]_vars

---------------------------------------------------------------------------
(* _consume_lines on the lines the serial port holds.                      *)

\* Lines the serial port may hold, at most MaxLines of them, and the sample
\* buffer of a point in progress.
InboundLines == {"DIST,30", "DIST,NA", "DIST,x", "DIST,nan", "OK", ""}
MaxLines == 2
BufferVals == {<<>>, <<40>>, <<40, 30>>}

\* A scan point in progress, with lines waiting in the serial port.
InitConsume ==
    /\ \E n \in 0..MaxLines : rx \in [1..n -> InboundLines]
    /\ samples \in BufferVals
    /\ awaiting_ping \in BOOLEAN
    /\ attempts = (IF awaiting_ping THEN 1 ELSE 0) + Len(samples)
    /\ cycle_index = 0
    /\ last_scan_ms = StartMs - servo_settle_ms
    /\ last_ping_ms = IF attempts > 0 THEN StartMs ELSE 0
    /\ servo_move_ms = StartMs - servo_settle_ms
    /\ current_servo_deg = center_deg
    /\ last_valid_left_ms = 0 /\ last_valid_right_ms = 0
    /\ pend = 0
    /\ tx = "" /\ resolved = ""
    /\ pings_pt = attempts /\ replies_pt = Len(samples)
    /\ lost = FALSE /\ unread = 0
    /\ buf = <<>>
    /\ open_sv = (IF awaiting_ping THEN 1 ELSE 0)
    /\ now = StartMs
    /\ pc = "sensing"
    /\ ser = TRUE
    /\ mcu_cmd = ""
    /\ call = NoCall
    /\ dist_left = NaN /\ dist_center = NaN /\ dist_right = NaN
    /\ last_valid_center_ms = 0
    /\ speed = "FAST"
    /\ state = "CRUISE"
    /\ commit_until_ms = 0
    /\ backoff_until_ms = 0
    /\ stall_start_ms = 0
    /\ clear_ms = 0
    /\ last_cmd = ""
    /\ cmd = "" /\ decision = "" /\ sent = FALSE /\ delivered = FALSE
    /\ twin = [e \in StopExits |-> Machine]
    /\ phase = 0
    /\ sweep = DefaultSweep
    /\ proc = ProcLoop

\* _consume_lines: the drain of one tick, with no line arriving meanwhile.
Drain ==
    /\ pc = "sensing"
    /\ \E c \in {ConsumeLines(rx, samples, awaiting_ping, 0)} :
         /\ samples' = c.samples
         /\ awaiting_ping' = c.awaiting
         /\ rx' = c.rest
         /\ buf' = c.samples
         /\ open_sv' = open_sv - c.replies
         /\ replies_pt' = replies_pt + c.replies
         /\ unread' = Len(c.rest)
    /\ pc' = "control"
    /\ UNCHANGED <<now, linkVars, slotVars, ctlVars, cycle_index, last_scan_ms,
                   last_ping_ms, servo_move_ms, attempts, current_servo_deg,
                   last_valid_left_ms, last_valid_right_ms, pend, tx,
                   resolved, pings_pt, lost, phase, sweep, proc>>

SpecConsume == InitConsume /\ [][Drain]_vars

---------------------------------------------------------------------------
(* The scheduler in a quick loop.                                          *)

\* A loop whose drain returns at once (run() sleeps 10 ms per round): the
\* clock reads of two consecutive ticks are 16 ms apart.  The scheduler is
\* followed for MaxQuickTime steps of ScanUnit ms.
QuickDts == {2 * 8}
MaxQuickTime == 12

\* SensingOrchestrator.tick on its own, in the quick loop.
QuickTick ==
    /\ ScanStep(Healthy, MaxQuickTime, QuickDts)
    /\ UNCHANGED <<pc, proc>>

NextQuick == QuickTick \/ LineDrop

SpecQuick == InitCtl /\ [][NextQuick]_vars

---------------------------------------------------------------------------
(* run(): the pairing wait, the main loop and the interrupt handler.       *)

\* watchdog.py, line 6, and main.py, line 27, in ms; config.py, line 44.
hb_period_ms == 200
pairing_sleep_ms == 50
serial_timeout_ms == 120

\* Pairing delays (pairing_seconds, here in ms) and the time one iteration
\* of the pairing wait takes: the sleep, with or without the read timeout.
PairingVals == {0, 100, 200}
PairDts == {pairing_sleep_ms, pairing_sleep_ms + serial_timeout_ms}

\* run() is followed for MaxMainTime steps of ScanUnit ms.
MaxMainTime == 18

\* run(), lines 13-22: everything is constructed and the deadline is set.
InitMain ==
    /\ InitLoop
    /\ sweep = DefaultSweep
    /\ proc \in [at : {"pairing"}, deadline : {StartMs + p : p \in PairingVals},
                 last_hb : {0}, line : {""}, stops : {0}, wd : {FALSE}]

\* Mutant of the test of the pairing loop: the wait is over at once.
PairingOverAtOnce(t, deadline) == TRUE

\* run(), line 23: the negation of `time.time() < deadline`.
PairingOver(t, deadline) == t >= deadline

\* Watchdog.tick, line 12
HeartbeatDue(t, last_hb) == t - last_hb >= hb_period_ms

\* Watchdog.tick: the possible results [ser, call, last_hb, line].
WatchdogTick(s, c, last_hb, t, io) ==
    IF HeartbeatDue(t, last_hb)
    THEN {[ser |-> r.ser, call |-> r.call, last_hb |-> t, line |-> "HB"]
          : r \in SendCommand(s, io)}
    ELSE {[ser |-> s, call |-> c, last_hb |-> last_hb, line |-> ""]}

\* run(), lines 23-27: the test of the pairing loop and one iteration: the
\* watchdog ticks, one line is read and thrown away, the process sleeps.
PairingTick(io) ==
    /\ proc.at = "pairing"
    /\ IF PairingOver(now, proc.deadline)
       THEN /\ proc' = [proc EXCEPT !.at = "loop", !.line = ""]
            /\ UNCHANGED <<now, ser, call, rx>>
       ELSE /\ \E w \in WatchdogTick(ser, call, proc.last_hb, now, io) :
               \E rd \in ReadLine(w.ser, io) :
                 /\ ser' = rd.ser
                 /\ call' = rd.call
                 /\ proc' = [proc EXCEPT !.last_hb = w.last_hb, !.line = w.line]
            /\ rx' = IF rx = <<>> THEN rx ELSE Tail(rx)
            /\ \E dt \in PairDts : now' = now + dt
    /\ UNCHANGED <<pc, mcu_cmd, slotVars, ctlVars, scanVars, pend, histVars,
                   phase, sweep>>

\* run(), line 29: watchdog.tick() in the main loop.
MainWatchdog(io) ==
    /\ proc.at = "loop" /\ pc = "sensing" /\ ~proc.wd
    /\ \E w \in WatchdogTick(ser, call, proc.last_hb, now, io) :
         /\ ser' = w.ser
         /\ call' = w.call
         /\ proc' = [proc EXCEPT !.last_hb = w.last_hb, !.line = w.line,
                                 !.wd = TRUE]
    /\ UNCHANGED <<now, pc, mcu_cmd, slotVars, ctlVars, scanVars, lineVars,
                   histVars, phase, sweep>>

\* run(), line 30: sensing.tick() in the main loop.
MainScan(io, horizon) ==
    /\ proc.at = "loop" /\ pc = "sensing" /\ proc.wd
    /\ ScanTickBody(io, horizon)
    /\ pc' = "control"
    /\ proc' = [proc EXCEPT !.wd = FALSE, !.line = ""]

\* run(), line 31: sm.tick() in the main loop.
MainControl(io) ==
    /\ proc.at = "loop"
    /\ ControlTick(io)

\* Mutant of the interrupt handler: STOP is sent and the loop goes on.
HandleInterruptResume(p) ==
    [p EXCEPT !.stops = @ + 1, !.line = "STOP"]

\* run(), lines 34-36: what the handler of KeyboardInterrupt does to run().
HandleInterrupt(p) ==
    [p EXCEPT !.at = "exit", !.stops = @ + 1, !.line = "STOP"]

\* run(), lines 34-36: KeyboardInterrupt in the pairing wait or in the loop.
Interrupt(io) ==
    /\ proc.at \in {"pairing", "loop"}
    /\ \E r \in SendCommand(ser, io) :
         /\ ser' = r.ser
         /\ call' = r.call
         /\ mcu_cmd' = IF r.delivered THEN "STOP" ELSE mcu_cmd
    /\ proc' = HandleInterrupt(proc)
    /\ UNCHANGED <<now, pc, slotVars, ctlVars, scanVars, lineVars, histVars,
                   phase, sweep>>

\* A line other than an answer to a PING reaches the input buffer.
NoiseArrive ==
    /\ proc.at # "exit"
    /\ Len(rx) < 1
    /\ \E x \in NoiseLines : rx' = Append(rx, x)
    /\ UNCHANGED <<now, pc, linkVars, slotVars, ctlVars, scanVars, pend,
                   histVars, phase, sweep, proc>>

NextMain ==
    \/ PairingTick(Healthy)
    \/ MainWatchdog(Healthy)
    \/ MainScan(Healthy, MaxMainTime)
    \/ MainControl(Healthy)
    \/ Interrupt(Healthy)
    \/ NoiseArrive

SpecMain == InitMain /\ [][NextMain]_vars

---------------------------------------------------------------------------
(* Properties of the avoidance state machine. *)

\* A control tick has run and the state is the one it left.
Ticked == pc = "sensing" /\ decision # ""

TurnStates == {"AVOID_ARC", "AVOID_SPIN"}

TurnCmds(st) == IF st = "AVOID_ARC" THEN {"L,SLOW", "R,SLOW"} ELSE {"SPINL", "SPINR"}

Fresh == ~Stale(last_valid_center_ms, now)

C3_StaleOverride ==
    (Ticked /\ Stale(last_valid_center_ms, now))
        => (state = "SENSOR_RECOVERY" /\ cmd = "F,SLOW")

\* C4: while the center slot has never received a valid reading, every
\* control tick ends with mode SENSOR_RECOVERY and command F,SLOW.
C4_NeverValidRecovery ==
    (Ticked /\ last_valid_center_ms = 0)
        => (state = "SENSOR_RECOVERY" /\ cmd = "F,SLOW" /\ decision = "SENSOR_RECOVERY")

\* C4 witness: long after start-up, with both side readings known, the
\* center slot has still never been valid.
C4_Witness ==
    /\ Ticked /\ last_valid_center_ms = 0
    /\ dist_left = 40 /\ dist_right = 80
    /\ now > StartMs + stall_timer_ms

\* C5: a control tick hands its command to the link iff the command is
\* non-empty and differs from the last command handed over; the last
\* command is updated exactly then; and a tick that produces the same
\* command as the tick before it transmits nothing.
C5_Dedup ==
    [][(pc = "control")
         => /\ sent' <=> (cmd' # "" /\ cmd' # last_cmd)
            /\ last_cmd' = (IF sent' THEN cmd' ELSE last_cmd)
            /\ (decision # "" /\ cmd' = cmd) => ~sent']_vars

\* C5 witness: two consecutive ticks produced B,SLOW and the second one
\* transmitted nothing.
C5_Witness ==
    Ticked /\ cmd = "B,SLOW" /\ last_cmd = "B,SLOW" /\ ~sent /\ mcu_cmd = "B,SLOW"

\* C6: on every control tick at which the link is connected and the
\* microcontroller does not hold the command the tick decides, the tick
\* transmits that command (a lost command is made up for by a later tick).
C6_LostCommandResent ==
    [][(pc = "control" /\ ser /\ cmd' # mcu_cmd) => sent']_vars

---------------------------------------------------------------------------
(* Properties of the scan scheduler. *)

\* A step of ScanTick: the only action that advances the clock.
IsScanTick == now' # now

\* The scheduler waits for an answer that cannot arrive: no PING is open at
\* the microcontroller and no DIST line is queued.
ScanStuck ==
    /\ awaiting_ping
    /\ pend = 0
    /\ \A i \in 1..Len(rx) : ~StartsWithDist(rx[i])

\* How long the scheduler may wait for an answer before it has to act.
PatienceMs == 2 * rescan_ms

\* Once the scheduler waits for a lost answer it waits for ever: every later
\* tick sends nothing and resolves nothing.
ScanStuckIsClosed ==
    [][ScanStuck => (ScanStuck' /\ (IsScanTick => tx' = "" /\ resolved' = ""))]_vars

\* C7: the scheduler does not wait for a lost answer for ever: a tick at
\* which the answer has been outstanding for more than PatienceMs and cannot
\* arrive sends a PING or a SERVO command or gives the point up.
C7_LostAnswerTolerated ==
    [][(IsScanTick /\ ScanStuck /\ now' - last_ping_ms > PatienceMs)
         => (tx' # "" \/ resolved' # "")]_vars

\* C8: when no PING and no answer is lost, a scan point has resolved (DONE
\* or GIVE_UP) by the time it has received as many answers as the attempt
\* budget allows requests; in particular a point answered only by DIST,NA.
C8_PointResolves ==
    ~lost => replies_pt <= max_attempts_per_point

\* C9: between the first SERVO command for a cycle index and the advance of
\* the index the scheduler issues at most max(2, 2 * samples_per_point) PINGs.
C9_AttemptBudget ==
    pings_pt <= max_attempts_per_point

\* C10: a SERVO command is issued only when no scan point is in progress
\* (the point commanded before has resolved, or none was commanded yet).
C10_ServoOnlyFromIdle ==
    [][(IsScanTick /\ tx' = "SERVO") => servo_move_ms = 0]_vars

\* C11: within one scan point two consecutive PING requests are at least
\* meas_cooldown_ms apart: a tick that sends a PING which is not the first
\* request since the point was commanded finds the last request at least
\* meas_cooldown_ms old.
C11_MeasurementCooldown ==
    [][(IsScanTick /\ tx' = "PING" /\ attempts > 0)
         => now' - last_ping_ms >= meas_cooldown_ms]_vars

\* C12: every scan tick consumes all lines that are available at the tick:
\* after a tick no line that was queued before it remains unread, whatever
\* the queued lines are.
C12_Drain ==
    unread = 0

---------------------------------------------------------------------------
(* Properties of the serial link. *)

\* C13: a single call of send_command or of read_line makes at most one
\* attempt to open the connection, whatever the connection state at entry
\* and whatever fails.
C13_OneReconnectPerCall ==
    call.connects <= 1

\* C14: an I/O failure inside send_command or read_line does not raise to
\* the caller; read_line returns None; after the call the link holds a
\* connection opened by this call or is marked disconnected, never the
\* connection the failure happened on before.
C14_FailureNonFatal ==
    call.failed =>
        /\ ~call.raised
        /\ (call.op = "read" => call.ret = "none")
        /\ (ser => call.fresh)

\* A read failed and the link holds a freshly opened connection; a send
\* failed and the link is marked disconnected.
C14_Witness ==
    \/ call.op = "read" /\ call.failed /\ ser /\ call.fresh
    \/ call.op = "send" /\ call.failed /\ ~ser

---------------------------------------------------------------------------
(* Further properties of the avoidance machine. *)

\* A step of ControlStateMachine.tick.
IsControlTick == pc = "control" /\ pc' = "sensing"

\* C15: on a control tick where the center reading is not-a-number the mode
\* does not change to BACKOFF or to AVOID_ARC, no stall backoff is forced and
\* the stall timer is not started, whatever the mode and the side readings.
C15_MissingDataNoAvoidance ==
    [][(IsControlTick /\ dist_center = NaN)
         => /\ (state' = "BACKOFF" => state = "BACKOFF")
            /\ (state' = "AVOID_ARC" => state = "AVOID_ARC")
            /\ decision' # "STALL_BACKOFF"
            /\ stall_start_ms' \in {0, stall_start_ms}]_vars

\* A tick has decided on an unknown center reading that is not yet stale,
\* coming out of an avoidance turn.
C15_Witness ==
    /\ Ticked /\ dist_center = NaN /\ Fresh
    /\ decision = "CRUISE" /\ commit_until_ms > 0

\* C16: on a control tick with a fresh center reading below stop_enter and a
\* mode other than BACKOFF the tick enters BACKOFF, commands B,SLOW and arms
\* backoff-until = now + backoff_ms, also inside an unexpired commit window
\* of AVOID_ARC or AVOID_SPIN.
C16_StopHasPriority ==
    [][(IsControlTick /\ Fresh /\ dist_center # NaN
          /\ dist_center < stop_enter /\ state # "BACKOFF")
         => /\ state' = "BACKOFF"
            /\ cmd' = "B,SLOW"
            /\ backoff_until_ms' = now + backoff_ms]_vars

\* A tick has entered BACKOFF on a close reading while the commit window of
\* a turn was still open.
C16_Witness ==
    /\ Ticked /\ Fresh /\ dist_center < stop_enter /\ dist_center # NaN
    /\ decision = "BACKOFF" /\ backoff_until_ms = now + backoff_ms
    /\ now < commit_until_ms

\* C17: on every control tick where the center distance is above turn_exit
\* the stall-start timestamp is zero at the end of the tick, in every mode,
\* BACKOFF included.
C17_StallTimerReset ==
    [][(IsControlTick /\ dist_center # NaN /\ dist_center > turn_exit)
         => stall_start_ms' = 0]_vars

\* C18: with a valid center reading, a tick at t with center 15 sets mode
\* BACKOFF and transmits B,SLOW; a tick at t + 200 ms with center 15 leaves
\* the mode BACKOFF and transmits nothing; a tick at t + 520 ms with left 80
\* and right 40 sets mode AVOID_SPIN, transmits SPINL and sets commit-until
\* to its own time + min_turn_ms.
C18_EndToEnd ==
    pc = "sensing" =>
        /\ phase = 1 => (state = "BACKOFF" /\ sent /\ mcu_cmd = "B,SLOW")
        /\ phase = 2 => (state = "BACKOFF" /\ ~sent /\ mcu_cmd = "B,SLOW")
        /\ phase = 3 => /\ state = "AVOID_SPIN"
                        /\ sent /\ mcu_cmd = "SPINL"
                        /\ commit_until_ms = now + min_turn_ms

\* The third tick of the scenario has been taken.
C18_Witness ==
    pc = "sensing" /\ phase = 3 /\ decision = "AVOID_SPIN"

\* The center distance the control tick works with.
CenterInput == Subst(dist_center)

\* C19: the speed sub-state changes only in a control tick; a tick whose
\* center distance lies strictly between slow_enter and slow_exit leaves it
\* as it is, in every mode; FAST becomes SLOW only on a tick with center <
\* slow_enter and SLOW becomes FAST only on a tick with center > slow_exit.
C19_NoChatter ==
    [][/\ speed' # speed => IsControlTick
       /\ (IsControlTick /\ slow_enter < CenterInput /\ CenterInput < slow_exit)
             => speed' = speed
       /\ (speed = "FAST" /\ speed' = "SLOW") => CenterInput < slow_enter
       /\ (speed = "SLOW" /\ speed' = "FAST") => CenterInput > slow_exit]_vars

\* A tick inside an avoidance turn has kept SLOW on a reading inside the band.
C19_Witness ==
    /\ Ticked /\ speed = "SLOW" /\ state \in TurnStates
    /\ slow_enter < dist_center /\ dist_center < slow_exit

---------------------------------------------------------------------------
(* Properties of the angle cycle. *)

\* C20: every element of the angle cycle built for a configuration lies
\* within [right bound, left bound].
C20_CycleWithinBounds ==
    \A i \in 1..Len(sweep.angles) :
        sweep.right <= sweep.angles[i] /\ sweep.angles[i] <= sweep.left

---------------------------------------------------------------------------
(* Properties of the median. *)

\* The k-th smallest element of a non-empty list.
Kth(vs, k) ==
    CHOOSE m \in {vs[i] : i \in 1..Len(vs)} :
        /\ Cardinality({i \in 1..Len(vs) : vs[i] < m}) < k
        /\ k <= Cardinality({i \in 1..Len(vs) : vs[i] <= m})

\* C21: the median of a non-empty sample list is the middle element of the
\* sorted list for odd length and the mean of the two middle elements for
\* even length, so median([30, 32, 31]) = 31; the median of an empty sample
\* list is not-a-number.
C21_Median ==
    LET n == Len(samples)
    IN  /\ samples = <<>> => Median(samples) = NaN
        /\ (n > 0 /\ n % 2 = 1) =>
              /\ MedianTwice(samples) = 2 * Kth(samples, (n + 1) \div 2)
              /\ Median(samples) = Kth(samples, (n + 1) \div 2)
        /\ (n > 0 /\ n % 2 = 0) =>
              MedianTwice(samples) =
                  Kth(samples, n \div 2) + Kth(samples, n \div 2 + 1)
        /\ samples = <<30, 32, 31>> => Median(samples) = 31
        /\ resolved = "DONE" => dist_center = Median(samples)

\* The median of [30, 32, 31] has been written to the slot.
C21_Witness ==
    samples = <<30, 32, 31>> /\ resolved = "DONE" /\ dist_center = 31

---------------------------------------------------------------------------
(* Properties of run(). *)

\* C22: until the pairing delay has elapsed no SERVO, PING or movement
\* command is sent; the pairing wait sends heartbeats only and reads one
\* line per iteration, which it throws away; the scheduler and the machine
\* tick only after the deadline.
C22_PairingDelay ==
    /\ [](proc.at = "pairing" =>
            /\ tx = "" /\ ~sent /\ decision = "" /\ mcu_cmd = ""
            /\ servo_move_ms = 0 /\ attempts = 0 /\ samples = <<>>)
    /\ []((tx # "" \/ decision # "") => now >= proc.deadline)
    /\ [][proc.at = "pairing" =>
            /\ proc'.line \in {"", "HB", "STOP"}
            /\ tx' = "" /\ ~sent'
            /\ proc'.at = "loop" => now >= proc.deadline
            /\ now' # now =>
                 /\ call'.op = "read"
                 /\ rx' = (IF rx = <<>> THEN rx ELSE Tail(rx))
                 /\ samples' = samples /\ awaiting_ping' = awaiting_ping]_vars

\* The pairing wait has sent a heartbeat and read the link.
C22_Witness ==
    /\ proc.at = "pairing" /\ proc.line = "HB" /\ call.op = "read"
    /\ now > StartMs /\ now < proc.deadline

\* C23: an interrupt in the pairing wait or in the main loop ends run() with
\* exactly one STOP handed to the link; nothing is sent after it.
C23_Shutdown ==
    /\ [](proc.stops = IF proc.at = "exit" THEN 1 ELSE 0)
    /\ [][proc.at # "exit"]_vars
    /\ [][proc'.at = "exit" =>
            /\ proc'.line = "STOP" /\ call'.op = "send"
            /\ UNCHANGED <<tx, scanVars, ctlVars>>]_vars

\* run() has been interrupted in the main loop and STOP has been delivered.
C23_Witness ==
    /\ proc.at = "exit" /\ proc.stops = 1 /\ mcu_cmd = "STOP"
    /\ tx # "" /\ decision # ""

---------------------------------------------------------------------------
(* Further properties of the scan scheduler. *)

\* C24: the move timestamp is the time of the most recent SERVO command and
\* is cleared when the point resolves; a PING is issued only while it is set
\* and at least servo_settle_ms old: never before the settle delay has
\* elapsed, never between a resolution and the next SERVO command.
C24_SettleDelay ==
    [][IsScanTick =>
         /\ tx' = "SERVO" => servo_move_ms' = now'
         /\ resolved' # "" => servo_move_ms' = 0
         /\ (tx' # "SERVO" /\ resolved' = "") => servo_move_ms' = servo_move_ms
         /\ tx' = "PING" => /\ servo_move_ms > 0
                            /\ now' - servo_move_ms >= servo_settle_ms]_vars

\* A PING has been issued once the servo had settled.
C24_Witness ==
    /\ tx = "PING" /\ servo_move_ms > 0
    /\ now - servo_move_ms >= servo_settle_ms

\* The angle of the scan point the scheduler is at, before the step.
PointAngle == angles_cycle[cycle_index + 1]

\* C25: the three readings and their last-valid timestamps change only on a
\* tick that resolves a scan point, and then only those of the slot whose
\* tracked angle is the resolved angle; a point at an interleaved angle
\* changes none of them, and the cycle index advances all the same.
C25_SlotFrame ==
    [][/\ (~IsScanTick \/ resolved' = "") =>
            UNCHANGED <<dist_left, dist_center, dist_right,
                        last_valid_center_ms, last_valid_left_ms,
                        last_valid_right_ms>>
       /\ (IsScanTick /\ resolved' # "") =>
            /\ PointAngle # center_deg =>
                 UNCHANGED <<dist_center, last_valid_center_ms>>
            /\ PointAngle # left_deg =>
                 UNCHANGED <<dist_left, last_valid_left_ms>>
            /\ PointAngle # right_deg =>
                 UNCHANGED <<dist_right, last_valid_right_ms>>
            /\ cycle_index' = (cycle_index + 1) % Len(angles_cycle)]_vars

\* A point at an interleaved angle has been resolved with samples while the
\* slots held the readings of an earlier round.
C25_Witness ==
    /\ resolved = "DONE" /\ cycle_index > 0
    /\ angles_cycle[cycle_index] \notin {center_deg, left_deg, right_deg}
    /\ dist_left = 80 /\ dist_center = 80 /\ dist_right = 80

\* The middle of a non-empty list by rank, in whole centimetres.
MiddleOf(vs) ==
    LET n == Len(vs)
    IN  IF n % 2 = 1 THEN Kth(vs, (n + 1) \div 2)
        ELSE (Kth(vs, n \div 2) + Kth(vs, n \div 2 + 1)) \div 2

\* C26: on the tick where the sample buffer reaches the target count the
\* slot of the point's angle, if it is tracked, becomes the median of the
\* buffered samples and its last-valid timestamp the time of the tick; the
\* cycle index advances by one modulo the cycle length and the per-point
\* state is reset.
C26_DoneResolution ==
    [][IsScanTick =>
         /\ resolved' = "DONE" <=>
              (Len(buf') >= samples_per_point /\ resolved' # "GIVE_UP")
         /\ resolved' = "DONE" =>
              /\ PointAngle = center_deg =>
                   /\ dist_center' = MiddleOf(buf')
                   /\ last_valid_center_ms' = now'
              /\ PointAngle = left_deg =>
                   /\ dist_left' = MiddleOf(buf')
                   /\ last_valid_left_ms' = now'
              /\ PointAngle = right_deg =>
                   /\ dist_right' = MiddleOf(buf')
                   /\ last_valid_right_ms' = now'
              /\ cycle_index' = (cycle_index + 1) % Len(angles_cycle)
              /\ samples' = <<>> /\ attempts' = 0
              /\ ~awaiting_ping' /\ servo_move_ms' = 0]_vars

\* The left bound has been resolved with samples whose median is not the
\* oldest of them.
C26_Witness ==
    /\ resolved = "DONE" /\ cycle_index = 0
    /\ angles_cycle[Len(angles_cycle)] = left_deg
    /\ Len(buf) = samples_per_point /\ buf[1] # MiddleOf(buf)
    /\ dist_left = MiddleOf(buf) /\ last_valid_left_ms = now

\* The give-up condition of a tick at time now': the servo has settled, the
\* buffer is short of the target, no reply is outstanding and the attempt
\* budget is used up.
BudgetSpent ==
    /\ servo_move_ms > 0 /\ now' - servo_move_ms >= servo_settle_ms
    /\ Len(samples) < samples_per_point
    /\ ~awaiting_ping
    /\ attempts >= max_attempts_per_point

\* C27: a tick that finds the give-up condition writes not-a-number into the
\* slot of the current angle, if it is tracked, and leaves the slot's
\* last-valid timestamp as it is; it advances the cycle index by one modulo
\* the cycle length, drops the partial samples, resets the per-point state
\* and sends no PING.
C27_GiveUpResolution ==
    [][(IsScanTick /\ BudgetSpent) =>
         /\ resolved' = "GIVE_UP"
         /\ tx' # "PING"
         /\ PointAngle = center_deg => dist_center' = NaN
         /\ PointAngle = left_deg => dist_left' = NaN
         /\ PointAngle = right_deg => dist_right' = NaN
         /\ UNCHANGED <<last_valid_center_ms, last_valid_left_ms,
                        last_valid_right_ms>>
         /\ cycle_index' = (cycle_index + 1) % Len(angles_cycle)
         /\ samples' = <<>> /\ attempts' = 0
         /\ ~awaiting_ping' /\ servo_move_ms' = 0]_vars

---------------------------------------------------------------------------
(* Properties of the drain. *)

\* The lines a drain reads: those before the first empty line.
RECURSIVE ReadLines(_)
ReadLines(lines) ==
    IF lines = <<>> \/ Head(lines) = "" THEN <<>>
    ELSE <<Head(lines)>> \o ReadLines(Tail(lines))

\* A DIST line whose payload is a number, and the number.
IsNumberLine(line) == line \in {"DIST,30", "DIST,40"}
NumberOf(line) == IF line = "DIST,30" THEN 30 ELSE 40

\* A line that starts with DIST, .
IsDistLine(line) ==
    line \in {"DIST,30", "DIST,40", "DIST,NA", "DIST,x", "DIST,nan"}

\* C28: of the lines a drain reads, each DIST line with a number appends
\* that one sample and clears awaiting-reply; a DIST,NA line or a DIST line
\* with a non-numeric payload clears awaiting-reply and leaves the sample
\* buffer as it is; any other line leaves both as they are; no line changes
\* the attempt counter or the cycle index.
C28_ReplyHandling ==
    [][(pc = "sensing" /\ pc' = "control") =>
         LET read == ReadLines(rx)
             nums == SelectSeq(read, IsNumberLine)
         IN  /\ samples' = samples \o [i \in 1..Len(nums) |-> NumberOf(nums[i])]
             /\ awaiting_ping' =
                  (awaiting_ping /\ \A i \in 1..Len(read) : ~IsDistLine(read[i]))
             /\ attempts' = attempts
             /\ cycle_index' = cycle_index]_vars

---------------------------------------------------------------------------
(* Further properties of the control state machine. *)

\* C29: with a fresh center reading and mode BACKOFF, a tick with
\* now < backoff-until commands B,SLOW and keeps mode BACKOFF; a tick with
\* now >= backoff-until switches the mode to AVOID_SPIN, commands a spin and
\* sets commit-until to now + min_turn_ms: the backoff ends on the first
\* tick at or after its timer.
C29_BackoffCompletion ==
    [][(IsControlTick /\ state = "BACKOFF" /\ Fresh) =>
         /\ now < backoff_until_ms =>
              /\ cmd' = "B,SLOW" /\ state' = "BACKOFF"
              /\ decision' = "BACKOFF"
         /\ now >= backoff_until_ms =>
              /\ state' = "AVOID_SPIN"
              /\ cmd' \in {"SPINL", "SPINR"}
              /\ commit_until_ms' = now + min_turn_ms
              /\ backoff_until_ms' = backoff_until_ms]_vars

\* A backoff has ended: the first tick at or after the timer has opened the
\* spin's commit window.
C29_Witness ==
    /\ Ticked /\ Fresh /\ state = "AVOID_SPIN" /\ decision = "AVOID_SPIN"
    /\ backoff_until_ms > 0 /\ now >= backoff_until_ms
    /\ commit_until_ms = now + min_turn_ms

\* The side readings the machine compares: an unknown side is the sentinel.
LeftClearance == IF dist_left = NaN THEN Sentinel ELSE dist_left
RightClearance == IF dist_right = NaN THEN Sentinel ELSE dist_right

\* C30: a tick that chooses a new avoidance maneuver (it opens a commit
\* window: AVOID_ARC from general avoidance, AVOID_SPIN after a backoff)
\* turns left (L,SLOW or SPINL) exactly if the left reading is strictly
\* greater than the right reading, an unknown side counting as the sentinel,
\* and right (R,SLOW or SPINR) otherwise, a tie included.
C30_TurnDirection ==
    [][(IsControlTick /\ commit_until_ms' # commit_until_ms) =>
         /\ decision' \in {"AVOID_ARC", "AVOID_SPIN"}
         /\ decision' = state'
         /\ LeftClearance > RightClearance =>
              cmd' = (IF state' = "AVOID_ARC" THEN "L,SLOW" ELSE "SPINL")
         /\ LeftClearance <= RightClearance =>
              cmd' = (IF state' = "AVOID_ARC" THEN "R,SLOW" ELSE "SPINR")]_vars

\* A new arc has been chosen on a tie of two known side readings: it turns
\* right.
C30_Witness ==
    /\ Ticked /\ decision = "AVOID_ARC" /\ commit_until_ms = now + min_turn_ms
    /\ dist_left = 40 /\ dist_right = 40 /\ cmd = "R,SLOW"

\* C31: stall detection forces BACKOFF (decision STALL_BACKOFF) only on a
\* tick before which the center distance was below turn-exit on every
\* control tick for longer than the stall timeout: the last control tick
\* that found the center at or above turn-exit, if there is one, lies more
\* than stall_timer_ms back.
C31_StallContinuous ==
    [][(IsControlTick /\ decision' = "STALL_BACKOFF") =>
         /\ Subst(dist_center) < turn_exit
         /\ now - clear_ms > stall_timer_ms]_vars

\* The mode after the recovery, backoff and general avoidance rules of a
\* tick is BACKOFF: a running backoff is held, or the stop rule has just
\* entered one.
BackoffAfterRules ==
    /\ Fresh
    /\ \/ state = "BACKOFF" /\ now < backoff_until_ms
       \/ state # "BACKOFF" /\ Subst(dist_center) < stop_enter

\* C32: on a tick whose mode after the first three rules is BACKOFF, and on
\* a tick with now < commit-until, stall detection does not force BACKOFF
\* and does not re-arm backoff-until: the decision is not STALL_BACKOFF and
\* backoff-until changes only where the stop rule enters a backoff.
C32_StallSuppressed ==
    [][(IsControlTick /\ (BackoffAfterRules \/ now < commit_until_ms')) =>
         /\ decision' # "STALL_BACKOFF"
         /\ backoff_until_ms' # backoff_until_ms =>
              (decision' = "BACKOFF" /\ state # "BACKOFF")]_vars

\* The stall timer had run out on a tick inside a commit window with the
\* center below turn-exit, and the tick has held the turn.
C32_Witness ==
    /\ Ticked /\ stall_start_ms # 0 /\ now - stall_start_ms > stall_timer_ms
    /\ Subst(dist_center) < turn_exit /\ Subst(dist_center) >= stop_enter
    /\ now < commit_until_ms /\ commit_until_ms < now + min_turn_ms
    /\ state \in TurnStates /\ decision = state

\* C33: a tick on which the sensor-recovery rule fires (the center reading
\* has never been valid or is stale) leaves backoff-until and commit-until
\* with the values they had before the tick, and clears the stall-start
\* timestamp only where the stall rule does (center at or above turn-exit).
C33_RecoveryKeepsTimers ==
    [][(IsControlTick /\ Stale(last_valid_center_ms, now)) =>
         /\ backoff_until_ms' = backoff_until_ms
         /\ commit_until_ms' = commit_until_ms
         /\ (stall_start_ms # 0 /\ stall_start_ms' = 0) =>
              Subst(dist_center) >= turn_exit]_vars

---------------------------------------------------------------------------
(* Further invariants of the scan scheduler. *)

\* C34: a PING is issued only while no reply is awaited; the number of PINGs
\* sent since the last SERVO command exceeds the number of DIST replies
\* consumed since then by at most one, and the attempt counter never
\* exceeds max(2, 2 * samples_per_point).
C34_OneOutstanding ==
    /\ [](open_sv <= 1 /\ attempts <= max_attempts_per_point)
    /\ [][(IsScanTick /\ tx' = "PING") => ~awaiting_ping]_vars

\* The last request the budget allows is outstanding.
C34_Witness ==
    /\ tx = "PING" /\ awaiting_ping /\ open_sv = 1
    /\ attempts = max_attempts_per_point

---------------------------------------------------------------------------
(* Further properties of the angle cycle. *)

\* The angles of the cycle built for the configuration.
CycleAngles == {sweep.angles[i] : i \in 1..Len(sweep.angles)}

\* C35: for every sweep configuration with right bound <= center <= left
\* bound and a positive step, the cycle built contains the center, the left
\* bound and the right bound.
C35_TrackedAnglesScanned ==
    (/\ sweep.angles # <<>>
     /\ sweep.right <= sweep.center /\ sweep.center <= sweep.left
     /\ sweep.step > 0)
        => {sweep.center, sweep.left, sweep.right} \subseteq CycleAngles

\* Rounds a build can take when every round that goes on adds an angle
\* between the bounds: the wider side of the sweep in degrees, and two.
RoundBudget ==
    Max(Max(sweep.center - sweep.right, sweep.left - sweep.center), 0) + 2

\* C36: the construction of the cycle terminates with a finite, non-empty
\* cycle for every integer configuration, a zero or negative step and a
\* center outside the bounds included: the loop never runs for more rounds
\* than the sweep has degrees, and the cycle it returns is not empty.
C36_BuildTerminates ==
    /\ sweep.k <= RoundBudget
    /\ sweep.done => Len(sweep.angles) >= 1

---------------------------------------------------------------------------
(* Agreement of mode and command. *)

\* The command that belongs to a mode.
ModeCmds(st) ==
    CASE st = "CRUISE" -> {"F," \o speed}
      [] st = "AVOID_ARC" -> {"L,SLOW", "R,SLOW"}
      [] st = "AVOID_SPIN" -> {"SPINL", "SPINR"}
      [] st = "BACKOFF" -> {"B,SLOW"}
      [] st = "SENSOR_RECOVERY" -> {"F,SLOW"}

\* The mode becomes CRUISE only on a control tick with center above
\* turn-exit.
CruiseOnlyWhenClear ==
    [][(state # "CRUISE" /\ state' = "CRUISE") =>
         (IsControlTick /\ Subst(dist_center) > turn_exit)]_vars

\* C37 as stated: at the end of every control tick the command is the one
\* that belongs to the mode, and the mode returns to CRUISE only on a tick
\* with center above turn-exit.
C37_ModeCommandAgree ==
    /\ [](Ticked => cmd \in ModeCmds(state))
    /\ CruiseOnlyWhenClear

\* The default rule of general avoidance has applied: fresh center reading
\* within [turn_enter, turn_exit], no commit window held; the tick left the
\* mode as it was and decided forward at the current speed.
DefaultForward ==
    /\ Fresh
    /\ turn_enter <= Subst(dist_center) /\ Subst(dist_center) <= turn_exit
    /\ decision = "CRUISE" /\ cmd = "F," \o speed
    /\ now >= commit_until_ms

\* C37 amended: at the end of every control tick the command is the one that
\* belongs to the mode, except that a tick to which the default rule applies
\* commands forward at the current speed and leaves the mode (AVOID_ARC,
\* AVOID_SPIN or SENSOR_RECOVERY) as it was; BACKOFF always goes with B,SLOW
\* and CRUISE with forward at the current speed; the mode returns to CRUISE
\* only on a tick with center above turn-exit.
C37_ModeCommandAgreeButDefault ==
    /\ [](Ticked =>
            /\ (cmd \in ModeCmds(state) \/ DefaultForward)
            /\ state \in {"BACKOFF", "CRUISE"} => cmd \in ModeCmds(state))
    /\ CruiseOnlyWhenClear

\* A tick has left the mode AVOID_ARC and commanded forward.
C37_Witness ==
    Ticked /\ state = "AVOID_ARC" /\ DefaultForward /\ cmd = "F,SLOW"

\* The center reading has never been valid or is older than three rescan
\* intervals.
CenterLost ==
    last_valid_center_ms = 0 \/ now - last_valid_center_ms > 3 * rescan_ms

\* C38 as stated: at the end of a control tick the mode is SENSOR_RECOVERY
\* only if on that tick the center reading has never been valid or is
\* stale; a tick with a fresh center reading never ends in SENSOR_RECOVERY.
C38_RecoveryOnlyWhenLost ==
    (Ticked /\ state = "SENSOR_RECOVERY") => CenterLost

\* C38 amended: a control tick ends in mode SENSOR_RECOVERY only if the
\* center reading has never been valid or is stale on that tick, or if the
\* mode was SENSOR_RECOVERY before the tick and the default rule applied
\* (fresh center within [turn_enter, turn_exit]): the tick then commands
\* forward at the current speed and leaves the mode as it was.
C38_RecoveryOnlyWhenLostOrKept ==
    [][(IsControlTick /\ state' = "SENSOR_RECOVERY") =>
         \/ CenterLost /\ decision' = "SENSOR_RECOVERY" /\ cmd' = "F,SLOW"
         \/ /\ state = "SENSOR_RECOVERY"
            /\ turn_enter <= Subst(dist_center)
            /\ Subst(dist_center) <= turn_exit
            /\ decision' = "CRUISE" /\ cmd' = "F," \o speed']_vars

\* A tick with a fresh center reading has ended in mode SENSOR_RECOVERY.
C38_Witness ==
    /\ Ticked /\ state = "SENSOR_RECOVERY" /\ ~CenterLost
    /\ decision = "CRUISE" /\ dist_center = 40

---------------------------------------------------------------------------
(* The scheduler and the machine together. *)

\* C39: with the default sweep and a sensor that answers every PING with a
\* distance, so that every scan point resolves as DONE, the last valid
\* center reading, once there is one, is never older than three rescan
\* intervals, and no control tick decides SENSOR_RECOVERY any more.
C39_HealthyNeverLost ==
    last_valid_center_ms > 0 =>
        /\ now - last_valid_center_ms <= 3 * rescan_ms
        /\ pc = "sensing" => decision # "SENSOR_RECOVERY"

\* In the healthy loop every point resolves with samples and no request is
\* lost.
HealthyLoop == resolved # "GIVE_UP" /\ ~lost /\ pend = 0

\* C40: two machines that are given the same readings at the same times
\* and differ only in the configured stop-exit value are, after every tick,
\* in the same mode at the same speed, have decided the same command and
\* have transmitted the same commands; the machine with the default
\* thresholds is one of them.
C40_StopExitUnread ==
    \A e \in StopExits :
        /\ twin[e].state = state
        /\ twin[e].speed = speed
        /\ twin[e].cmd = cmd
        /\ twin[e].sent = sent
        /\ twin[e].last_cmd = last_cmd

\* A machine that has had an obstacle ahead for a commit window or longer
\* meets a center reading between stop-enter and a configured stop-exit
\* value and commits to a turn, as does its twin.
C40_Witness ==
    /\ Ticked
    /\ state = "AVOID_ARC"
    /\ commit_until_ms = now + min_turn_ms
    /\ last_cmd \in {"L,SLOW", "R,SLOW"}
    /\ stall_start_ms > 0 /\ stall_start_ms + min_turn_ms <= now
    /\ \E e \in StopExits : stop_enter <= dist_center /\ dist_center < e
    /\ \E e \in StopExits : twin[e].commit = now + min_turn_ms /\ e # stop_exit

====
